---- MODULE Spec2Model ----
(***************************************************************************)
(* A model of src/app.py, the 2024 Japan Grand Prix dashboard.             *)
(*                                                                         *)
(*   create_figure       gear-coloured path of the fastest lap             *)
(*   create_speed_graph  speed-coloured path of the fastest lap            *)
(*   create_scatterplot  lap times coloured by tyre compound               *)
(*   update_figures      the Dash callback that calls the three in turn    *)
(*                                                                         *)
(* Three state machines share the module:                                  *)
(*   SpecPath     the data path of create_figure / create_speed_graph     *)
(*   SpecScatter  the data path of create_scatterplot                      *)
(*   Spec         update_figures requests run by the server's threads over *)
(*                pyplot's process-wide figure registry; SpecSerial is the *)
(*                same machine with one request at a time                  *)
(* Library calls (numpy, matplotlib, seaborn, pandas) are modelled by what *)
(* they do at the call site that is named in the comment of the operator.  *)
(***************************************************************************)
EXTENDS Integers, Sequences, FiniteSets

VARIABLES
    fn,          \* path machine: the function being run
    ppc,         \* path machine: position inside the function
    telemetry,   \* lap telemetry: sequence of [X, Y, ch] (ch = nGear or Speed)
    segments,    \* the (N-1) x 2 x 2 array `segments`
    lc,          \* the LineCollection: its array, norm and colormap size
    image,       \* what the function returned / drew
    spc,         \* scatter machine: position inside create_scatterplot
    driver_laps, \* the laps handed to sns.scatterplot
    plot,        \* what sns.scatterplot put on the axes
    scatter_out, \* what create_scatterplot returned
    laps,        \* request machine: the session's quick laps of every driver
    figures,     \* request machine: the Figure objects that exist
    Gcf,         \* pyplot's registry of open figures, the current one last
    rpc,         \* per request: position inside update_figures
    rdrv,        \* per request: selected_driver
    rfig,        \* per request: the figure its local fig / lc_comp is on
    rimg         \* per request: the images made so far

pathVars == <<fn, ppc, telemetry, segments, lc, image>>
scatterVars == <<spc, driver_laps, plot, scatter_out>>
requestVars == <<laps, figures, Gcf, rpc, rdrv, rfig, rimg>>
vars == <<fn, ppc, telemetry, segments, lc, image,
          spc, driver_laps, plot, scatter_out,
          laps, figures, Gcf, rpc, rdrv, rfig, rimg>>

Null == "null"
NoImage == "no image"

-----------------------------------------------------------------------------
(* Bounds and data domains                                                 *)

\* longest telemetry sequence drawn
MaxLen == 3

\* track positions a sample may have
Track == {<<0, 0>>, <<1, 2>>}

\* nGear values of a racing lap
Gears == 1..8

\* Speed values (km/h) a sample may have
Speeds == {100, 200, 300}

SeqsUpTo(S, n) == UNION {[1..k -> S] : k \in 0..n}

Samples(channel) == {[X |-> p[1], Y |-> p[2], ch |-> c] : p \in Track, c \in channel}

TelemetrySeqs(channel) == SeqsUpTo(Samples(channel), MaxLen)

-----------------------------------------------------------------------------
(* numpy / matplotlib helpers                                              *)

\* cmap.N of colormaps['Paired'] and of mpl.cm.plasma
PairedN == 12
PlasmaN == 256

\* points = np.array([x, y]).T.reshape(-1, 1, 2)
Points(t) == [i \in 1..Len(t) |-> <<t[i].X, t[i].Y>>]

\* np.concatenate([points[:-1], points[1:]], axis=1): row i is
\* (points[i], points[i+1]); an input of 0 or 1 points gives 0 rows.
ConcatenateClosed(points) ==
    [i \in 1..Len(points) |->
        [start |-> points[i], end |-> points[(i % Len(points)) + 1]]]

Concatenate(points) ==
    LET n == IF Len(points) = 0 THEN 0 ELSE Len(points) - 1
    IN  [i \in 1..n |-> [start |-> points[i], end |-> points[i + 1]]]

\* telemetry['nGear'].to_numpy() / lap.telemetry['Speed']
Channel(t) == [i \in 1..Len(t) |-> t[i].ch]

\* a float that may be NaN: <<>> is NaN, <<v>> the number v
NaN == <<>>
Num(v) == <<v>>

\* Series.min() / Series.max(): NaN on an empty Series
Min(s) ==
    IF Len(s) = 0 THEN NaN
    ELSE Num(CHOOSE v \in {s[i] : i \in 1..Len(s)} : \A j \in 1..Len(s) : v <= s[j])
Max(s) ==
    IF Len(s) = 0 THEN NaN
    ELSE Num(CHOOSE v \in {s[i] : i \in 1..Len(s)} : \A j \in 1..Len(s) : v >= s[j])

\* plt.Normalize(vmin, vmax)(v) as the fraction num/den (den = 0: NaN).
\* matplotlib returns 0 for every value when vmin == vmax; NaN limits are
\* not equal to each other and give NaN.
NormalizeNoGuard(vmin, vmax, v) ==
    IF vmin = NaN \/ vmax = NaN THEN [num |-> 0, den |-> 0]
    ELSE [num |-> v - vmin[1], den |-> vmax[1] - vmin[1]]

NormalizeMidpoint(vmin, vmax, v) ==
    IF vmin = NaN \/ vmax = NaN THEN [num |-> 0, den |-> 0]
    ELSE IF vmin = vmax THEN [num |-> 1, den |-> 2]
    ELSE [num |-> v - vmin[1], den |-> vmax[1] - vmin[1]]

Normalize(vmin, vmax, v) ==
    IF vmin = NaN \/ vmax = NaN THEN [num |-> 0, den |-> 0]
    ELSE IF vmin = vmax THEN [num |-> 0, den |-> 1]
    ELSE [num |-> v - vmin[1], den |-> vmax[1] - vmin[1]]

\* Colormap.__call__: palette index int(x * N), x == 1 taking the last entry,
\* values under 0 / over 1 the colour of the first / last entry, NaN the
\* "bad" entry of the lookup table (index N + 2).
Bad(N) == N + 2

ColormapNearest(N, x) ==
    IF x.den = 0 THEN Bad(N)
    ELSE IF x.num < 0 THEN 0
    ELSE IF x.num >= x.den THEN N - 1
    ELSE (2 * x.num * N + x.den) \div (2 * x.den)

Colormap(N, x) ==
    IF x.den = 0 THEN Bad(N)
    ELSE IF x.num < 0 THEN 0
    ELSE IF x.num >= x.den THEN N - 1
    ELSE (x.num * N) \div x.den

\* The scalar the collection draws segment i with: Collection cycles through
\* the mapped colours of its array by index, so an array one longer than the
\* segment list leaves its last value unused.
SegmentScalarTrailing(array, i) == array[(i % Len(array)) + 1]

SegmentScalar(array, i) == array[((i - 1) % Len(array)) + 1]

\* update_scalarmappable + draw: every segment with its scalar and colour
Draw(l) ==
    [i \in 1..Len(l.segments) |->
        [seg    |-> l.segments[i],
         scalar |-> SegmentScalar(l.array, i),
         color  |-> Colormap(l.N, Normalize(l.vmin, l.vmax, SegmentScalar(l.array, i)))]]

-----------------------------------------------------------------------------
(* create_figure: the colorbar of the gear plot                            *)

\* boundaries=np.arange(1, 10)
Boundaries == [k \in 1..9 |-> k]

\* cbar.set_ticks(np.arange(1.5, 9.5)), in halves: 3, 5, ..., 17
Ticks2 == [k \in 1..8 |-> 2 * k + 1]

\* cbar.set_ticklabels(np.arange(1, 9))
TickLabels == [k \in 1..8 |-> k]

\* the bucket [Boundaries[k], Boundaries[k+1]) a value (in halves) falls in
Bucket2(v2) ==
    IF \E k \in 1..(Len(Boundaries) - 1) :
           2 * Boundaries[k] <= v2 /\ v2 < 2 * Boundaries[k + 1]
    THEN CHOOSE k \in 1..(Len(Boundaries) - 1) :
           2 * Boundaries[k] <= v2 /\ v2 < 2 * Boundaries[k + 1]
    ELSE 0

\* the colorbar paints bucket k with the colour of its midpoint value
\* (Boundaries[k] + Boundaries[k+1]) / 2, computed here in halves
Swatch(l, k) ==
    Colormap(l.N, Normalize(Num(2 * l.vmin[1]), Num(2 * l.vmax[1]),
                            Boundaries[k] + Boundaries[k + 1]))

Colorbar(l) ==
    [swatches |-> [k \in 1..(Len(Boundaries) - 1) |-> Swatch(l, k)],
     ticks2   |-> Ticks2,
     labels   |-> TickLabels]

-----------------------------------------------------------------------------
(* The data path of create_figure and create_speed_graph                   *)

NoLC == [segments |-> <<>>, array |-> <<>>, vmin |-> NaN, vmax |-> NaN, N |-> 0]

\* create_figure, lines 22-27: the fastest lap's telemetry
FigureLoad ==
    /\ ppc = "idle"
    /\ \E t \in TelemetrySeqs(Gears) : telemetry' = t
    /\ fn' = "create_figure"
    /\ ppc' = "loaded"
    /\ UNCHANGED <<segments, lc, image>>
    /\ UNCHANGED <<scatterVars, requestVars>>

\* create_figure, lines 29-39: segments, gear and the LineCollection
FigureSegments ==
    /\ fn = "create_figure" /\ ppc = "loaded"
    /\ segments' = Concatenate(Points(telemetry))
    /\ lc' = [segments |-> Concatenate(Points(telemetry)),
              array    |-> Channel(telemetry),
              vmin     |-> Num(1),
              vmax     |-> Num(PairedN + 1),
              N        |-> PairedN]
    /\ ppc' = "built"
    /\ UNCHANGED <<fn, telemetry, image>>
    /\ UNCHANGED <<scatterVars, requestVars>>

\* create_figure, lines 41-60: add the collection, the colorbar, save, return
FigureDraw ==
    /\ fn = "create_figure" /\ ppc = "built"
    /\ image' = [drawn |-> Draw(lc), cbar |-> Colorbar(lc)]
    /\ ppc' = "returned"
    /\ UNCHANGED <<fn, telemetry, segments, lc>>
    /\ UNCHANGED <<scatterVars, requestVars>>

\* create_speed_graph, lines 114-121: the fastest lap's telemetry
SpeedLoad ==
    /\ ppc = "idle"
    /\ \E t \in TelemetrySeqs(Speeds) : telemetry' = t
    /\ fn' = "create_speed_graph"
    /\ ppc' = "loaded"
    /\ UNCHANGED <<segments, lc, image>>
    /\ UNCHANGED <<scatterVars, requestVars>>

\* create_speed_graph, lines 124-125: segments
SpeedSegments ==
    /\ fn = "create_speed_graph" /\ ppc = "loaded"
    /\ segments' = Concatenate(Points(telemetry))
    /\ ppc' = "built"
    /\ UNCHANGED <<fn, telemetry, lc, image>>
    /\ UNCHANGED <<scatterVars, requestVars>>

\* create_speed_graph, lines 140-145: the norm over the lap's speed range
SpeedCollection ==
    /\ fn = "create_speed_graph" /\ ppc = "built"
    /\ lc' = [segments |-> segments,
              array    |-> Channel(telemetry),
              vmin     |-> Min(Channel(telemetry)),
              vmax     |-> Max(Channel(telemetry)),
              N        |-> PlasmaN]
    /\ ppc' = "mapped"
    /\ UNCHANGED <<fn, telemetry, segments, image>>
    /\ UNCHANGED <<scatterVars, requestVars>>

\* create_speed_graph, lines 148-163: add the collection, the legend, save
SpeedDraw ==
    /\ fn = "create_speed_graph" /\ ppc = "mapped"
    /\ image' = [drawn |-> Draw(lc), cbar |-> Null]
    /\ ppc' = "returned"
    /\ UNCHANGED <<fn, telemetry, segments, lc>>
    /\ UNCHANGED <<scatterVars, requestVars>>

NextPath ==
    \/ FigureLoad \/ FigureSegments \/ FigureDraw
    \/ SpeedLoad \/ SpeedSegments \/ SpeedCollection \/ SpeedDraw


-----------------------------------------------------------------------------
(* The data path of create_scatterplot                                     *)

\* most laps a driver's quick-lap frame holds
MaxLaps == 3

COMPOUND_COLORS ==
    [c \in {"SOFT", "MEDIUM", "HARD", "INTERMEDIATE", "WET"} |->
        CASE c = "SOFT" -> "#D32F2F"
          [] c = "MEDIUM" -> "#FFB300"
          [] c = "HARD" -> "#757575"
          [] c = "INTERMEDIATE" -> "#388E3C"
          [] c = "WET" -> "#1976D2"]

\* the keys of COMPOUND_COLORS in the order the dict literal lists them
CompoundKeys == <<"SOFT", "MEDIUM", "HARD", "INTERMEDIATE", "WET">>

\* a missing Compound (None / NaN in the frame)
NA == "<NA>"

\* the colour seaborn gives a hue value its lookup table does not hold
Transparent == "(0, 0, 0, 0)"

\* Compound values a lap may carry: the palette's keys, a compound the
\* palette does not know, the empty string, and a missing value
Compounds == DOMAIN COMPOUND_COLORS \cup {"SUPERSOFT", "", NA}

\* race.laps.pick_driver(d).pick_quicklaps().reset_index(): the driver's
\* laps that are quick laps, in lap order, every LapNumber once
LapFrames ==
    {SelectSeq([n \in 1..MaxLaps |-> [LapNumber |-> n, Compound |-> c[n]]],
               LAMBDA lap : lap.Compound # "not quick") :
        c \in [1..MaxLaps -> Compounds \cup {"not quick"}]}

RECURSIVE Unique(_)
\* pd.unique: the values of a sequence, each once, in order of first appearance
Unique(s) ==
    IF Len(s) = 0 THEN <<>>
    ELSE LET rest == Unique(SubSeq(s, 1, Len(s) - 1))
             last == s[Len(s)]
         IN  IF \E i \in 1..Len(rest) : rest[i] = last THEN rest
             ELSE Append(rest, last)

NotNull(v) == v # NA

Hue(frame) == [i \in 1..Len(frame) |-> frame[i].Compound]

\* seaborn categorical_order on a string column
CategoricalOrderAll(vector) == SelectSeq(vector, NotNull)

CategoricalOrderByKey(vector) ==
    LET Present(c) == \E i \in 1..Len(vector) : vector[i] = c
    IN  SelectSeq(CompoundKeys, Present)
        \o SelectSeq(Unique(SelectSeq(vector, NotNull)),
                     LAMBDA c : c \notin DOMAIN COMPOUND_COLORS)

CategoricalOrder(vector) == Unique(SelectSeq(vector, NotNull))

\* HueMapping.categorical_mapping with a dict palette:
\*   missing = set(levels) - set(palette); if any(missing): raise ValueError
\* any() of a set of strings is true when one of them is not empty.
MissingNever(levels) == FALSE

Missing(levels) ==
    \E k \in 1..Len(levels) :
        levels[k] \notin DOMAIN COMPOUND_COLORS /\ levels[k] # ""

\* HueMapping._lookup_single: the palette's colour, transparent on a KeyError
Lookup(key) ==
    IF key \in DOMAIN COMPOUND_COLORS THEN COMPOUND_COLORS[key] ELSE Transparent

\* _ScatterPlotter.plot: data = comp_data.dropna()
Dropna(frame) == SelectSeq(frame, LAMBDA r : NotNull(r.Compound))

\* sns.scatterplot(data=driver_laps, x="LapNumber", hue="Compound",
\*                 palette=COMPOUND_COLORS, legend='auto')
Scatterplot(frame) ==
    LET levels == CategoricalOrder(Hue(frame))
        data   == Dropna(frame)
    IN  [raised |-> Missing(levels),
         points |-> [i \in 1..Len(data) |->
                        [LapNumber |-> data[i].LapNumber,
                         Compound  |-> data[i].Compound,
                         color     |-> Lookup(data[i].Compound)]],
         legend |-> [k \in 1..Len(levels) |->
                        [label |-> levels[k], color |-> Lookup(levels[k])]]]

\* the laps drawn under one legend entry, in drawing order
GroupLaps(p, label) ==
    LET mine == SelectSeq(p.points, LAMBDA r : r.Compound = label)
    IN  [i \in 1..Len(mine) |-> mine[i].LapNumber]

\* the category groups of a plot: one per legend entry
Groups(p) ==
    [k \in 1..Len(p.legend) |->
        [category |-> p.legend[k].label,
         color    |-> p.legend[k].color,
         laps     |-> GroupLaps(p, p.legend[k].label)]]

NoPlot == [raised |-> FALSE, points |-> <<>>, legend |-> <<>>]

\* create_scatterplot, lines 71-75: the driver's quick laps
ScatterLoad ==
    /\ spc = "idle"
    /\ \E f \in LapFrames : driver_laps' = f
    /\ spc' = "loaded"
    /\ UNCHANGED <<plot, scatter_out>>
    /\ UNCHANGED <<pathVars, requestVars>>

\* create_scatterplot, lines 77-88: the figure and sns.scatterplot, which
\* raises ValueError before it draws when the palette misses a level
ScatterDraw ==
    /\ spc = "loaded"
    /\ IF Scatterplot(driver_laps).raised
       THEN spc' = "raised" /\ UNCHANGED plot
       ELSE spc' = "plotted" /\ plot' = Scatterplot(driver_laps)
    /\ UNCHANGED <<driver_laps, scatter_out>>
    /\ UNCHANGED <<pathVars, requestVars>>

\* create_scatterplot, lines 90-105: labels, savefig, close, return
ScatterSave ==
    /\ spc = "plotted"
    /\ scatter_out' = [image |-> TRUE, groups |-> Groups(plot)]
    /\ spc' = "returned"
    /\ UNCHANGED <<driver_laps, plot>>
    /\ UNCHANGED <<pathVars, requestVars>>

NextScatter == ScatterLoad \/ ScatterDraw \/ ScatterSave

-----------------------------------------------------------------------------
(* update_figures requests over pyplot's process-wide state                *)

\* requests the server is sent; it runs each on a thread of its own
MaxCalls == 2

Requests == 1..MaxCalls
Drivers == {"VER", "HAM"}

\* Figure objects that can exist at once
FigIds == 1..(3 * MaxCalls)

\* quick laps a driver may have in the session: all on known compounds, or
\* one on a compound the palette does not hold
GoodLaps == <<[LapNumber |-> 1, Compound |-> "SOFT"],
              [LapNumber |-> 2, Compound |-> "MEDIUM"]>>
OddLaps == <<[LapNumber |-> 1, Compound |-> "SOFT"],
             [LapNumber |-> 2, Compound |-> "UNKNOWN"]>>

NoFigure == [live |-> FALSE, owner |-> 0, size |-> "", marks |-> {}]

Open == {Gcf[i] : i \in 1..Len(Gcf)}

\* a pyplot state: the figures and the registry
Pyplot == [figures |-> figures, Gcf |-> Gcf, fig |-> 0]

\* plt.figure() / plt.subplots(): a new Figure, registered and made current
NewFigure(P, r, size) ==
    LET f == CHOOSE g \in FigIds :
                 /\ ~P.figures[g].live
                 /\ \A h \in FigIds : ~P.figures[h].live => g <= h
    IN  [figures |-> [P.figures EXCEPT
                        ![f] = [live |-> TRUE, owner |-> r, size |-> size, marks |-> {}]],
         Gcf     |-> Append(P.Gcf, f),
         fig     |-> f]

\* plt.gcf(): the current figure, a new default-size one when none is open
gcf(P, r) ==
    IF Len(P.Gcf) > 0 THEN [P EXCEPT !.fig = P.Gcf[Len(P.Gcf)]]
    ELSE NewFigure(P, r, "default")

\* request r puts artists on figure f (marks: the requests that drew on it)
Mark(P, f, r) ==
    [P EXCEPT !.figures[f].marks = @ \cup {r}]

\* plt.close(): the current figure leaves the registry
close(P) ==
    IF Len(P.Gcf) = 0 THEN P
    ELSE [P EXCEPT !.Gcf = SubSeq(P.Gcf, 1, Len(P.Gcf) - 1)]

\* plt.savefig(buf): the PNG of the current figure, as what it shows
\* (size: the figure's figsize; content: the drivers whose data is drawn on
\* it; of: the request that made the figure)
savefig(P, f) ==
    [size    |-> P.figures[f].size,
     content |-> {rdrv[m] : m \in P.figures[f].marks},
     of      |-> P.figures[f].owner]

\* a Figure no registry entry and no local variable refers to is collected
Collect(P, refs) ==
    [f \in FigIds |->
        IF (\E i \in 1..Len(P.Gcf) : P.Gcf[i] = f) \/ (\E r \in Requests : refs[r] = f)
        THEN P.figures[f] ELSE NoFigure]

\* the next state of pyplot and of request r's locals
Step(r, P, pc, ref) ==
    /\ Gcf' = P.Gcf
    /\ rfig' = [rfig EXCEPT ![r] = ref]
    /\ figures' = Collect(P, [rfig EXCEPT ![r] = ref])
    /\ rpc' = [rpc EXCEPT ![r] = pc]

Finished(r) == rpc[r] \in {"returned", "raised"}

\* update_figures(selected_driver) is called, line 199; create_figure loads
\* the lap and builds lc_comp, lines 22-39
Call(r, d) ==
    /\ rpc[r] = "new"
    /\ \A q \in 1..(r - 1) : rpc[q] # "new"
    /\ rdrv' = [rdrv EXCEPT ![r] = d]
    /\ rpc' = [rpc EXCEPT ![r] = "figure_gca"]
    /\ UNCHANGED <<laps, figures, Gcf, rfig, rimg, pathVars, scatterVars>>

\* create_figure, line 41: plt.gca().add_collection(lc_comp)
FigureAddCollection(r) ==
    /\ rpc[r] = "figure_gca"
    /\ LET P == gcf(Pyplot, r)
       IN  Step(r, Mark(P, P.fig, r), "figure_title", P.fig)
    /\ UNCHANGED <<laps, rdrv, rimg, pathVars, scatterVars>>

\* create_figure, lines 42-48: plt.axis, plt.tick_params, plt.suptitle
FigureTitle(r) ==
    /\ rpc[r] = "figure_title"
    /\ LET P == gcf(Pyplot, r)
       IN  Step(r, Mark(P, P.fig, r), "figure_colorbar", rfig[r])
    /\ UNCHANGED <<laps, rdrv, rimg, pathVars, scatterVars>>

\* create_figure, lines 50-52: plt.colorbar(mappable=lc_comp, ...) calls
\* gcf(); the colorbar goes next to the current axes or next to the
\* mappable's axes, depending on the matplotlib release
FigureColorbar(r) ==
    /\ rpc[r] = "figure_colorbar"
    /\ LET P == gcf(Pyplot, r)
       IN  \E f \in {P.fig, rfig[r]} :
               Step(r, Mark(P, f, r), "figure_savefig", 0)
    /\ UNCHANGED <<laps, rdrv, rimg, pathVars, scatterVars>>

\* lines 55, 100, 158: plt.savefig(buf, format='png')
Savefig(r, at, next) ==
    /\ rpc[r] = at
    /\ LET P == gcf(Pyplot, r)
       IN  /\ Step(r, P, next, rfig[r])
           /\ rimg' = [rimg EXCEPT ![r] = Append(@, savefig(P, P.fig))]
    /\ UNCHANGED <<laps, rdrv, pathVars, scatterVars>>

\* lines 56, 101, 159: plt.close(), and the function returns its image
Close(r, at, next) ==
    /\ rpc[r] = at
    /\ Step(r, close(Pyplot), next, 0)
    /\ UNCHANGED <<laps, rdrv, rimg, pathVars, scatterVars>>

FigureSavefig(r) == Savefig(r, "figure_savefig", "figure_close")
FigureClose(r) == Close(r, "figure_close", "speed_subplots")

\* create_speed_graph, lines 114-129: load, segments, plt.subplots, fig.suptitle
SpeedSubplots(r) ==
    /\ rpc[r] = "speed_subplots"
    /\ LET P == NewFigure(Pyplot, r, "speed")
       IN  Step(r, Mark(P, P.fig, r), "speed_adjust", P.fig)
    /\ UNCHANGED <<laps, rdrv, rimg, pathVars, scatterVars>>

\* create_speed_graph, line 132: plt.subplots_adjust
SpeedAdjust(r) ==
    /\ rpc[r] = "speed_adjust"
    /\ LET P == gcf(Pyplot, r)
       IN  Step(r, Mark(P, P.fig, r), "speed_axes", rfig[r])
    /\ UNCHANGED <<laps, rdrv, rimg, pathVars, scatterVars>>

\* create_speed_graph, lines 133-154: ax.plot, ax.add_collection(lc),
\* fig.add_axes and the legend, all on the function's own fig / ax
SpeedAxes(r) ==
    /\ rpc[r] = "speed_axes"
    /\ Step(r, Mark(Pyplot, rfig[r], r), "speed_savefig", rfig[r])
    /\ UNCHANGED <<laps, rdrv, rimg, pathVars, scatterVars>>

SpeedSavefig(r) == Savefig(r, "speed_savefig", "speed_close")
SpeedClose(r) == Close(r, "speed_close", "scatter_subplots")

\* create_scatterplot, lines 71-92: load, plt.subplots, sns.scatterplot on
\* the function's own ax (the ValueError of a palette that misses a level
\* leaves the function there, its figure still registered), axis labels
ScatterSubplots(r) ==
    /\ rpc[r] = "scatter_subplots"
    /\ LET P == NewFigure(Pyplot, r, "scatter")
       IN  IF Scatterplot(laps[rdrv[r]]).raised
           THEN Step(r, P, "raised", 0)
           ELSE Step(r, Mark(P, P.fig, r), "scatter_title", P.fig)
    /\ UNCHANGED <<laps, rdrv, rimg, pathVars, scatterVars>>

\* create_scatterplot, lines 93-97: plt.suptitle, plt.grid, sns.despine,
\* plt.tight_layout
ScatterTitle(r) ==
    /\ rpc[r] = "scatter_title"
    /\ LET P == gcf(Pyplot, r)
       IN  Step(r, Mark(P, P.fig, r), "scatter_savefig", rfig[r])
    /\ UNCHANGED <<laps, rdrv, rimg, pathVars, scatterVars>>

ScatterSavefig(r) == Savefig(r, "scatter_savefig", "scatter_close")

\* create_scatterplot, line 101, and update_figures returns, line 202
ScatterClose(r) == Close(r, "scatter_close", "returned")

\* a step of a request that is under way
Running ==
    \/ \E r \in Requests : FigureAddCollection(r)
    \/ \E r \in Requests : FigureTitle(r)
    \/ \E r \in Requests : FigureColorbar(r)
    \/ \E r \in Requests : FigureSavefig(r)
    \/ \E r \in Requests : FigureClose(r)
    \/ \E r \in Requests : SpeedSubplots(r)
    \/ \E r \in Requests : SpeedAdjust(r)
    \/ \E r \in Requests : SpeedAxes(r)
    \/ \E r \in Requests : SpeedSavefig(r)
    \/ \E r \in Requests : SpeedClose(r)
    \/ \E r \in Requests : ScatterSubplots(r)
    \/ \E r \in Requests : ScatterTitle(r)
    \/ \E r \in Requests : ScatterSavefig(r)
    \/ \E r \in Requests : ScatterClose(r)

\* the server runs every request on a thread of its own (app.run_server)
CallThreaded == \E r \in Requests, d \in Drivers : Call(r, d)

Next == CallThreaded \/ Running

\* one request at a time: a request is called when no other is under way
CallSerial ==
    /\ \A r \in Requests : rpc[r] = "new" \/ Finished(r)
    /\ \E r \in Requests, d \in Drivers : Call(r, d)

NextSerial == CallSerial \/ Running

\* the process has started (lines 166-171): no function has run, no figure
\* is open; the session holds the laps of every driver
Init ==
    /\ fn = "none"
    /\ ppc = "idle"
    /\ telemetry = <<>>
    /\ segments = <<>>
    /\ lc = NoLC
    /\ image = NoImage
    /\ spc = "idle"
    /\ driver_laps = <<>>
    /\ plot = NoPlot
    /\ scatter_out = [image |-> FALSE, groups |-> <<>>]
    /\ laps \in {[d \in Drivers |-> IF d = "HAM" THEN l ELSE GoodLaps] :
                   l \in {GoodLaps, OddLaps}}
    /\ figures = [f \in FigIds |-> NoFigure]
    /\ Gcf = <<>>
    /\ rpc = [r \in Requests |-> "new"]
    /\ rdrv = [r \in Requests |-> "VER"]
    /\ rfig = [r \in Requests |-> 0]
    /\ rimg = [r \in Requests |-> <<>>]

\* the same, the session's laps being of no concern to the function under
\* study
InitFunction ==
    /\ fn = "none"
    /\ ppc = "idle"
    /\ telemetry = <<>>
    /\ segments = <<>>
    /\ lc = NoLC
    /\ image = NoImage
    /\ spc = "idle"
    /\ driver_laps = <<>>
    /\ plot = NoPlot
    /\ scatter_out = [image |-> FALSE, groups |-> <<>>]
    /\ laps = [d \in Drivers |-> GoodLaps]
    /\ figures = [f \in FigIds |-> NoFigure]
    /\ Gcf = <<>>
    /\ rpc = [r \in Requests |-> "new"]
    /\ rdrv = [r \in Requests |-> "VER"]
    /\ rfig = [r \in Requests |-> 0]
    /\ rimg = [r \in Requests |-> <<>>]

SpecPath == InitFunction /\ [][NextPath]_vars

SpecScatter == InitFunction /\ [][NextScatter]_vars

Spec == Init /\ [][Next]_vars

SpecSerial == Init /\ [][NextSerial]_vars

-----------------------------------------------------------------------------
(* Properties of the path machine                                          *)

Returned(f) == fn = f /\ ppc = "returned"
PathReturned == ppc = "returned"
Position(s) == <<s.X, s.Y>>
AllEqual(s) == \A i, j \in 1..Len(s) : s[i] = s[j]

\* C1: for a telemetry sequence of length N >= 2 both functions build exactly
\* N-1 segments in input order, segment i joins sample i to sample i+1, and
\* the scalar that colours segment i is the channel value of sample i.
C1_LeadingSample ==
    /\ (ppc \in {"built", "mapped"} /\ Len(telemetry) >= 2) =>
           /\ Len(segments) = Len(telemetry) - 1
           /\ \A i \in 1..Len(segments) :
                  /\ segments[i].start = Position(telemetry[i])
                  /\ segments[i].end = Position(telemetry[i + 1])
    /\ (PathReturned /\ Len(telemetry) >= 2) =>
           /\ Len(image.drawn) = Len(telemetry) - 1
           /\ \A i \in 1..Len(image.drawn) :
                  /\ image.drawn[i].seg.start = Position(telemetry[i])
                  /\ image.drawn[i].seg.end = Position(telemetry[i + 1])
                  /\ image.drawn[i].scalar = telemetry[i].ch

C1_Witness ==
    /\ Returned("create_figure")
    /\ Len(telemetry) = 3
    /\ telemetry[1].ch = 2 /\ telemetry[2].ch = 5 /\ telemetry[3].ch = 7
    /\ Position(telemetry[1]) # Position(telemetry[2])
    /\ Len(image.drawn) = 2
    /\ image.drawn[2].scalar = 5

\* C2 as claimed: on a telemetry sequence of length 0 or 1 the function stops
\* with an error before it has a segment list, and draws nothing.
C2_FailsOnShortInput ==
    Len(telemetry) < 2 => ppc \in {"idle", "loaded"}

\* C2 as amended: on a telemetry sequence of length 0 or 1 nothing is raised:
\* the segment list is empty, the next step of the function is enabled, and
\* the function returns an image that holds no segment.
C2_EmptySegmentsOnShortInput ==
    /\ (ppc = "loaded" /\ Len(telemetry) < 2) =>
           ENABLED (FigureSegments \/ SpeedSegments)
    /\ (ppc \in {"built", "mapped"} /\ Len(telemetry) < 2) =>
           /\ segments = <<>>
           /\ ENABLED (FigureDraw \/ SpeedCollection \/ SpeedDraw)
    /\ (PathReturned /\ Len(telemetry) < 2) =>
           /\ segments = <<>>
           /\ image.drawn = <<>>

C2_Witness ==
    /\ Returned("create_speed_graph")
    /\ Len(telemetry) = 1
    /\ image.drawn = <<>>

\* C3: in the gear plot a segment whose gear is the integer g of 1..8 gets
\* the colour of colorbar bucket g = [g, g+1); the eight buckets have eight
\* different palette entries; there is one tick per bucket, tick g labelled g
\* and placed at g + 0.5, the middle of bucket g.
C3_GearBuckets ==
    Returned("create_figure") =>
        /\ \A i \in 1..Len(image.drawn) :
               LET g == telemetry[i].ch
               IN  /\ Bucket2(2 * g) = g
                   /\ image.drawn[i].color = image.cbar.swatches[g]
                   /\ image.drawn[i].color = g - 1
        /\ Len(image.cbar.swatches) = 8
        /\ \A j, k \in 1..8 :
               j # k => image.cbar.swatches[j] # image.cbar.swatches[k]
        /\ Len(image.cbar.ticks2) = 8 /\ Len(image.cbar.labels) = 8
        /\ \A g \in 1..8 :
               /\ image.cbar.labels[g] = g
               /\ image.cbar.ticks2[g] = 2 * g + 1
               /\ Bucket2(image.cbar.ticks2[g]) = g
               /\ Bucket2(2 * g) = g
               /\ Bucket2(2 * g + 1) = g

C3_Witness ==
    /\ Returned("create_figure")
    /\ Len(telemetry) = 2
    /\ telemetry[1].ch = 3
    /\ image.drawn[1].color = image.cbar.swatches[3]
    /\ image.cbar.labels[3] = 3
    /\ image.cbar.ticks2[3] = 7

\* C4: in the speed plot, when every speed of the lap is the same, the norm
\* divides by nothing (no zero denominator, no NaN colour) and every segment
\* is drawn in one and the same colour.
C4_ConstantSpeedUniform ==
    (Returned("create_speed_graph") /\ AllEqual(Channel(telemetry))) =>
        \A i, j \in 1..Len(image.drawn) :
            /\ Normalize(lc.vmin, lc.vmax, image.drawn[i].scalar).den # 0
            /\ image.drawn[i].color # Bad(lc.N)
            /\ image.drawn[i].color = image.drawn[j].color

C4_Witness ==
    /\ Returned("create_speed_graph")
    /\ Len(telemetry) = 3
    /\ \A i \in 1..3 : telemetry[i].ch = 200
    /\ Len(image.drawn) = 2
    /\ image.drawn[1].color = image.drawn[2].color

\* C5 as claimed: with domain_min == domain_max every segment of the speed
\* plot gets the middle entry of the palette (normalized position 0.5).
C5_DegenerateIsMidpoint ==
    (Returned("create_speed_graph") /\ AllEqual(Channel(telemetry))) =>
        \A i \in 1..Len(image.drawn) : image.drawn[i].color = PlasmaN \div 2

\* C5 as amended: with domain_min == domain_max every segment of the speed
\* plot gets the lowest entry of the palette (normalized position 0).
C5_DegenerateIsLowest ==
    (Returned("create_speed_graph") /\ AllEqual(Channel(telemetry))) =>
        \A i \in 1..Len(image.drawn) :
            /\ Normalize(lc.vmin, lc.vmax, image.drawn[i].scalar).num = 0
            /\ image.drawn[i].color = 0

C5_Witness ==
    /\ Returned("create_speed_graph")
    /\ Len(telemetry) = 2
    /\ telemetry[1].ch = 300 /\ telemetry[2].ch = 300
    /\ image.drawn[1].color = 0

-----------------------------------------------------------------------------
(* Properties of the scatter machine                                       *)

ScatterReturned == spc = "returned"
Known(c) == c \in DOMAIN COMPOUND_COLORS

\* how often lap number n occurs in the groups that were returned
Occurrences(n) ==
    LET gs == scatter_out.groups
    IN  Cardinality({<<k, i>> \in (1..Len(gs)) \X (1..MaxLaps) :
                        i <= Len(gs[k].laps) /\ gs[k].laps[i] = n})

\* the position in driver_laps of the first lap with Compound c / of lap n
FirstIndex(c) ==
    CHOOSE i \in 1..Len(driver_laps) :
        /\ driver_laps[i].Compound = c
        /\ \A j \in 1..(i - 1) : driver_laps[j].Compound # c
IndexOfLap(n) == CHOOSE i \in 1..Len(driver_laps) : driver_laps[i].LapNumber = n

\* C6 as claimed: when a lap's Compound is not a key of COMPOUND_COLORS, a
\* missing value included, the call raises at the plot step: it never has a
\* plot and returns no image.
C6_UnknownCategoryFails ==
    (\E i \in 1..Len(driver_laps) : ~Known(driver_laps[i].Compound)) =>
        /\ spc \in {"loaded", "raised"}
        /\ ~scatter_out.image

\* C6 as amended: when a lap's Compound is a non-empty string that is not a
\* key of COMPOUND_COLORS the call raises at the plot step, has no plot and
\* returns no image; a lap whose Compound is missing raises nothing and is
\* left out of the plot, and no drawn lap gets a colour other than its
\* compound's own.
C6_UnknownNameFails ==
    /\ (\E i \in 1..Len(driver_laps) :
            LET c == driver_laps[i].Compound
            IN  ~Known(c) /\ c # NA /\ c # "") =>
           /\ spc \in {"loaded", "raised"}
           /\ plot = NoPlot
           /\ ~scatter_out.image
    /\ (spc = "loaded" /\ \A i \in 1..Len(driver_laps) :
            Known(driver_laps[i].Compound) \/ driver_laps[i].Compound = NA) =>
           ~Scatterplot(driver_laps).raised
    /\ spc \in {"plotted", "returned"} =>
           \A i \in 1..Len(plot.points) :
               /\ plot.points[i].Compound # NA
               /\ Known(plot.points[i].Compound) =>
                      plot.points[i].color = COMPOUND_COLORS[plot.points[i].Compound]

C6_Witness ==
    /\ spc = "raised"
    /\ Len(driver_laps) = 2
    /\ driver_laps[1].Compound = "SOFT"
    /\ driver_laps[2].Compound = "SUPERSOFT"
    /\ ~scatter_out.image

\* C7 as claimed: every lap number of the input is in exactly one returned
\* group, once, and the groups hold no lap number that was not in the input.
C7_EveryLapOnce ==
    ScatterReturned =>
        /\ \A i \in 1..Len(driver_laps) : Occurrences(driver_laps[i].LapNumber) = 1
        /\ \A n \in 1..MaxLaps :
               Occurrences(n) > 0 =>
                   \E i \in 1..Len(driver_laps) : driver_laps[i].LapNumber = n

\* C7 as amended: every input lap whose Compound is not missing is in exactly
\* one returned group, once, and that group is its compound's; an input lap
\* whose Compound is missing is in no group; the groups hold no lap number
\* that was not in the input.
C7_EveryLapWithCompoundOnce ==
    ScatterReturned =>
        /\ \A i \in 1..Len(driver_laps) :
               LET lap == driver_laps[i]
               IN  IF lap.Compound = NA
                   THEN Occurrences(lap.LapNumber) = 0
                   ELSE /\ Occurrences(lap.LapNumber) = 1
                        /\ \E k \in 1..Len(scatter_out.groups) :
                               /\ scatter_out.groups[k].category = lap.Compound
                               /\ \E j \in 1..Len(scatter_out.groups[k].laps) :
                                      scatter_out.groups[k].laps[j] = lap.LapNumber
        /\ \A n \in 1..MaxLaps :
               Occurrences(n) > 0 =>
                   \E i \in 1..Len(driver_laps) : driver_laps[i].LapNumber = n

C7_Witness ==
    /\ ScatterReturned
    /\ Len(driver_laps) = 3
    /\ driver_laps[1].Compound = "MEDIUM"
    /\ driver_laps[2].Compound = "HARD"
    /\ driver_laps[3].Compound = "MEDIUM"
    /\ Len(scatter_out.groups) = 2
    /\ \A n \in 1..3 : Occurrences(n) = 1

\* C8: the returned groups are in the order in which their categories first
\* appear in the input laps, each category once, and the laps of a group are
\* in input order.
C8_FirstAppearanceOrder ==
    ScatterReturned =>
        LET gs == scatter_out.groups
        IN  /\ \A j, k \in 1..Len(gs) :
                   j < k => /\ gs[j].category # gs[k].category
                            /\ FirstIndex(gs[j].category) < FirstIndex(gs[k].category)
            /\ \A k \in 1..Len(gs) :
                   \A a, b \in 1..Len(gs[k].laps) :
                       a < b => IndexOfLap(gs[k].laps[a]) < IndexOfLap(gs[k].laps[b])

C8_Witness ==
    /\ ScatterReturned
    /\ driver_laps = <<[LapNumber |-> 1, Compound |-> "SOFT"],
                       [LapNumber |-> 2, Compound |-> "SOFT"],
                       [LapNumber |-> 3, Compound |-> "MEDIUM"]>>
    /\ Len(scatter_out.groups) = 2
    /\ scatter_out.groups[1].category = "SOFT"
    /\ scatter_out.groups[1].laps = <<1, 2>>
    /\ scatter_out.groups[2].category = "MEDIUM"
    /\ scatter_out.groups[2].laps = <<3>>

-----------------------------------------------------------------------------
(* Properties of the request machine                                       *)

\* what update_figures(d) shows when it is the first call of a process:
\* the gear plot, the speed plot and the scatter plot, each of d alone
FreshImages(d) ==
    <<[size |-> "default", content |-> {d}],
      [size |-> "speed", content |-> {d}],
      [size |-> "scatter", content |-> {d}]>>

Shown(img) == [size |-> img.size, content |-> img.content]

\* every figure holds the artists of the request that made it, and no others
OwnArtistsOnly ==
    \A f \in FigIds : figures[f].live => figures[f].marks \subseteq {figures[f].owner}

\* C9: two update_figures requests for different drivers, neither of which
\* raises, may interleave their pyplot calls in any way: every image a
\* request makes shows its own driver's data only and is saved from a figure
\* of its own, a returned request has three images, no figure carries another
\* request's artists, and a figure a request still works on stays open.
C9_ParallelRequestsIsolated ==
    \A r, q \in Requests :
        (r # q /\ rpc[r] # "new" /\ rpc[q] # "new" /\ rdrv[r] # rdrv[q]
               /\ rpc[r] # "raised" /\ rpc[q] # "raised") =>
            /\ \A i \in 1..Len(rimg[r]) :
                   /\ rimg[r][i].content \subseteq {rdrv[r]}
                   /\ rimg[r][i].of = r
            /\ rpc[r] = "returned" => Len(rimg[r]) = 3
            /\ OwnArtistsOnly
            /\ rfig[r] # 0 => rfig[r] \in Open

\* C10: requests one after the other, some of which may have raised inside a
\* render function: every image of a request is the one the same call makes
\* as the first call of a fresh process, and no request draws on, or saves, a
\* figure an earlier request left behind.
C10_RequestsStateless ==
    \A r \in Requests :
        /\ \A i \in 1..Len(rimg[r]) :
               /\ Shown(rimg[r][i]) = FreshImages(rdrv[r])[i]
               /\ rimg[r][i].of = r
        /\ rpc[r] = "returned" => Len(rimg[r]) = 3
        /\ OwnArtistsOnly
====
